---- MODULE Spec2Model ----
(***************************************************************************)
(* The staged pipeline of genesis_integration.py: genesis_vector_algorithm *)
(* and its eight stage functions, the tool-discovery worker and the        *)
(* sqlite-backed FeedbackDatabase.  The external collaborators (nlp_model, *)
(* the GitHub search request, the sqlite connection) are modelled by the   *)
(* outcomes they can hand back: a returned value or a raised exception.    *)
(***************************************************************************)
EXTENDS Integers, Sequences, FiniteSets, TLC

\* ------------------------------------------------------------- bounds
\* number of calls of genesis_vector_algorithm in one behaviour
MaxRuns == 2
\* largest number of repositories in one search response
MaxItems == 4
\* the longest primitive list handed to construct_scaffold directly
MaxPrims == 4

\* ------------------------------------------------------ input domains
\* threads of the process; the module is imported (and the connection
\* created) on MainThread
AllThreads == {"main", "t1"}
MainThread == "main"
\* domain descriptions handed to genesis_vector_algorithm
Domains == {"support bots", "billing"}
\* messages of exceptions raised by nlp_model / error fields it returns
Details == {"timeout", "bad input"}
\* messages of sqlite3.OperationalError
BusyError == "database is locked"
DiskError == "disk I/O error"
\* message of sqlite3.ProgrammingError for a connection used off its thread
ThreadError == "SQLite objects created in a thread can only be used in that same thread"
\* message of the RuntimeError of executor.submit
SubmitError == "can't start new thread"

\* a collaborator call either returns a value or raises an exception
Returns(v) == [ret |-> v]
Raises(msg) == [raise |-> msg]
Raised(o) == "raise" \in DOMAIN o

\* the empty dict {}
EmptyDict == [k \in {} |-> ""]
\* Python truthiness of a list and of a dict
NotList(l) == Len(l) = 0
\* faulty variant of NotDict: "is None" in place of "not", which {} never is
NotDictIsNone(d) == FALSE
NotDict(d) == DOMAIN d = {}

\* ------------------------------------------ collaborator outcome sets
\* nlp_model.extract_domain_data(text)
ExtractOutcomes(text) ==
    {Returns([topic |-> text])}
      \cup {Returns([error |-> d]) : d \in Details}
      \cup {Returns([topic |-> text, error |-> d]) : d \in Details}
      \cup {Raises(d) : d \in Details}

\* nlp_model.prioritize_elements(domain_data)
PrioritizeOutcomes ==
    {Returns(<<>>), Returns(<<"latency", "context">>), Raises("timeout")}

\* nlp_model.generate_solution_primitives(critical_elements); the third
\* list holds a primitive without a "key" field
PrimitiveOutcomes ==
    { Returns(<<>>),
      Returns(<<[key |-> "memory"], [key |-> "cache"]>>),
      Returns(<<[key |-> "cache"], [key |-> "cache"]>>),
      Returns(<<[key |-> "cache"], [name |-> "no key"]>>),
      Raises("timeout") }

\* the i-th repository of a search response
Repo(i) == [name |-> "repo" \o ToString(i), description |-> "about " \o ToString(i)]
\* requests.get(...).json(): a body with n items, a body without "items"
\* (an API error body), or an exception of requests
SearchOutcomes ==
    {Returns([items |-> [i \in 1..n |-> Repo(i)]]) : n \in 0..MaxItems}
      \cup {Returns([message |-> "rate limit exceeded"])}
      \cup {Raises("connection refused")}

\* nlp_model.synthesize_concept(scaffold, tools)
SynthesisOutcomes == {Returns("adaptive context memory"), Raises("timeout")}

\* nlp_model.refine_insight(insight)
RefineOutcomes == {Returns("Refined insight"), Raises("timeout")}

\* ------------------------------------------------- the stage functions
\* lines 51-57
analyze_domain(o) == IF Raised(o) THEN [error |-> o.raise] ELSE o.ret

\* faulty variant of line 64: a placeholder element, not the empty list
ElementsPlaceholder == <<"unknown">>
\* line 64: the value returned when prioritize_elements raises
ElementsOnFailure == <<>>
\* lines 59-64
identify_critical_elements(o) == IF Raised(o) THEN ElementsOnFailure ELSE o.ret

\* line 71: the value returned when generate_solution_primitives raises
PrimitivesOnFailure == <<>>
\* lines 66-71
generate_primitives(o) == IF Raised(o) THEN PrimitivesOnFailure ELSE o.ret

\* faulty variant of Build: a key is listed once, at its first occurrence
BuildDeduplicated(primitives) ==
    LET keys == [i \in 1..Len(primitives) |-> primitives[i].key]
        First(i) == \A j \in 1..(i - 1) : keys[j] # keys[i]
        Rank(i) == Cardinality({j \in 1..i : First(j)})
        n == Cardinality({i \in 1..Len(primitives) : First(i)})
    IN  [keywords |-> [k \in 1..n |->
                         keys[CHOOSE i \in 1..Len(primitives) : First(i) /\ Rank(i) = k]],
         structure |-> "basic"]

\* lines 39-41: ScaffoldBuilder.build, for primitives that all carry a key
Build(primitives) ==
    [keywords |-> [i \in 1..Len(primitives) |-> primitives[i].key],
     structure |-> "basic"]

\* lines 73-78: p["key"] raises KeyError for a primitive without the field
construct_scaffold(primitives) ==
    IF \E i \in 1..Len(primitives) : "key" \notin DOMAIN primitives[i]
    THEN EmptyDict
    ELSE Build(primitives)

\* line 18: the slice [:3]
Cap == 3
\* line 18: one entry of the returned list
Tool(repo) == [name |-> repo.name, desc |-> repo.description]
\* faulty variant of find_tools: the slice [:3] is left out
find_tools_unsliced(o) ==
    IF Raised(o) \/ "items" \notin DOMAIN o.ret
    THEN <<>>
    ELSE [i \in 1..Len(o.ret.items) |-> Tool(o.ret.items[i])]

\* lines 14-22: ToolDiscoveryAPI.find_tools on the outcome of the request
find_tools(o) ==
    IF Raised(o) \/ "items" \notin DOMAIN o.ret
    THEN <<>>
    ELSE LET items == o.ret.items
             n == IF Len(items) < Cap THEN Len(items) ELSE Cap
         IN [i \in 1..n |-> Tool(items[i])]

\* lines 20-21: the message of the exception find_tools catches and logs: the
\* one requests raised, or the KeyError of a body without "items"; "" when
\* there is none
FindToolsFault(o) ==
    IF Raised(o) THEN o.raise
    ELSE IF "items" \notin DOMAIN o.ret THEN "'items'" ELSE ""

\* lines 80-89: discover_tools on the outcome of submit + future.result()
discover_tools(o) == IF Raised(o) THEN <<>> ELSE o.ret

\* lines 91-96
synthesize_meta_concept(o) == IF Raised(o) THEN "Synthesis failed" ELSE o.ret

\* lines 45-47 and 98-103
generate_insight(meta_concept) == "Insight from " \o meta_concept

\* faulty variant of line 110: the draft is cut to its first 12 characters
RefineFallbackCut(insight) ==
    IF Len(insight) > 12 THEN SubSeq(insight, 1, 12) ELSE insight
\* line 110: the value returned when nlp_model.refine_insight raises
RefineFallback(insight) == insight
\* lines 105-110
refine_insight(insight, o) == IF Raised(o) THEN RefineFallback(insight) ELSE o.ret

\* ------------------------------------------------ the orchestrator's strings
\* faulty variant of line 116: the handler's prefix of line 144 in its place
AnalysisErrorMessageAsHandler(detail) == "Error: " \o detail
\* line 116
AnalysisErrorMessage(detail) == "Analysis Error: " \o detail
\* line 120
NoElementsMessage == "Error: No critical elements identified"
\* faulty variant of line 124: the message of line 128 copied
NoPrimitivesMessageCopied == "Error: Scaffold construction failed"
\* line 124
NoPrimitivesMessage == "Error: Failed to generate primitives"
\* line 128
NoScaffoldMessage == "Error: Scaffold construction failed"
\* line 144
ErrorMessage(e) == "Error: " \o e

\* ---------------------------------------------------------------- state
VARIABLES
    pc,         \* per caller thread: where its call of genesis_vector_algorithm stands
    frame,      \* per caller thread: the locals of that call
    future,     \* per caller thread: the future of the find_tools worker
    committed,  \* rows of table feedback in feedback.db
    pending,    \* rows inserted on feedback_database.conn and not yet committed
    nruns,      \* calls of genesis_vector_algorithm started so far
    returned,   \* history: the value each call returned, by call number
    obs         \* history, per caller thread: what the current call did

vars == <<pc, frame, future, committed, pending, nruns, returned, obs>>

Threads == DOMAIN pc

\* line 29: sqlite3.connect binds the connection to the thread that creates
\* it (check_same_thread defaults to True); line 36 runs at import
ConnThread == MainThread

\* locals before their assignment
NewFrame ==
    [domain_description |-> "", domain_data |-> EmptyDict,
     critical_elements |-> <<>>, primitives |-> <<>>, scaffold |-> EmptyDict,
     tools |-> <<>>, meta_concept |-> "", insight |-> "",
     refined_insight |-> "", e |-> "", result |-> ""]

\* run: the number of the call; calls: the stage functions run so far, in
\* order; raised: <<stage, message>> for each exception a collaborator raised;
\* synth_args: the arguments handed to nlp_model.synthesize_concept;
\* search: what the search request of the worker handed back;
\* before: the store when the call started
NoSearch == [none |-> TRUE]
NewObs ==
    [run |-> 0, calls |-> <<>>, raised |-> {}, synth_args |-> <<>>,
     search |-> NoSearch,
     before |-> [committed |-> <<>>, pending |-> <<>>]]

NoFuture == [state |-> "none", value |-> <<>>]

\* placeholder in returned for a call that has not returned yet
Running == "<running>"

\* what a SELECT on feedback_database.conn sees
Rows == committed \o pending

InitFor(threads) ==
    /\ pc = [t \in threads |-> "idle"]
    /\ frame = [t \in threads |-> NewFrame]
    /\ future = [t \in threads |-> NoFuture]
    /\ committed = <<>>
    /\ pending = <<>>
    /\ nruns = 0
    /\ returned = <<>>
    /\ obs = [t \in threads |-> NewObs]

\* a single-threaded caller (the __main__ block, lines 146-149)
Init == InitFor({MainThread})

\* ------------------------------------------------------------- helpers
\* history: the call of thread t ran stage function name, whose collaborator
\* handed back outcome o
Seen(t, name, o) ==
    [obs[t] EXCEPT !.calls = Append(@, name),
                   !.raised = IF Raised(o) THEN @ \cup {<<name, o.raise>>} ELSE @]

Called(t, name) == \E i \in 1..Len(obs[t].calls) : obs[t].calls[i] = name

\* the collaborator of stage function name raised in the call of thread t
Failed(t, name) == \E r \in obs[t].raised : r[1] = name

\* the call of thread t goes on at label with locals f
Continue(t, f, label) ==
    /\ pc' = [pc EXCEPT ![t] = label]
    /\ frame' = [frame EXCEPT ![t] = f]
    /\ UNCHANGED returned

\* the call of thread t returns value
Return(t, f, value) ==
    /\ pc' = [pc EXCEPT ![t] = "done"]
    /\ frame' = [frame EXCEPT ![t] = [f EXCEPT !.result = value]]
    /\ returned' = [returned EXCEPT ![obs[t].run] = value]

\* lines 142-144: the handler around the whole body
Caught(t, f, msg) == Return(t, [f EXCEPT !.e = msg], ErrorMessage(msg))

\* faulty variant of Row: the draft of line 135 is stored, not the refined insight
RowOfDraft(t) ==
    [domain |-> frame[t].domain_description,
     insight |-> frame[t].insight,
     run |-> obs[t].run]

\* the row store_success inserts; run tags the row with the call that wrote it
Row(t) ==
    [domain |-> frame[t].domain_description,
     insight |-> frame[t].refined_insight,
     run |-> obs[t].run]

\* --------------------------------------------------------------- actions
\* a caller invokes genesis_vector_algorithm(d)
Start(t) ==
    /\ pc[t] \in {"idle", "done"}
    /\ nruns < MaxRuns
    /\ \E d \in Domains :
         frame' = [frame EXCEPT ![t] = [NewFrame EXCEPT !.domain_description = d]]
    /\ pc' = [pc EXCEPT ![t] = "analyze"]
    /\ nruns' = nruns + 1
    /\ returned' = Append(returned, Running)
    /\ obs' = [obs EXCEPT ![t] = [NewObs EXCEPT !.run = nruns + 1,
                                !.before = [committed |-> committed, pending |-> pending]]]
    /\ future' = [future EXCEPT ![t] = NoFuture]
    /\ UNCHANGED <<committed, pending>>

\* lines 114-116
Analyze(t) ==
    /\ pc[t] = "analyze"
    /\ \E o \in ExtractOutcomes(frame[t].domain_description) :
         LET f == [frame[t] EXCEPT !.domain_data = analyze_domain(o)]
         IN  /\ IF "error" \in DOMAIN f.domain_data
                THEN Return(t, f, AnalysisErrorMessage(f.domain_data.error))
                ELSE Continue(t, f, "identify")
             /\ obs' = [obs EXCEPT ![t] = Seen(t, "analyze_domain", o)]
    /\ UNCHANGED <<future, committed, pending, nruns>>

\* lines 118-120
Identify(t) ==
    /\ pc[t] = "identify"
    /\ \E o \in PrioritizeOutcomes :
         LET f == [frame[t] EXCEPT !.critical_elements = identify_critical_elements(o)]
         IN  /\ IF NotList(f.critical_elements)
                THEN Return(t, f, NoElementsMessage)
                ELSE Continue(t, f, "primitives")
             /\ obs' = [obs EXCEPT ![t] = Seen(t, "identify_critical_elements", o)]
    /\ UNCHANGED <<future, committed, pending, nruns>>

\* lines 122-124
Primitives(t) ==
    /\ pc[t] = "primitives"
    /\ \E o \in PrimitiveOutcomes :
         LET f == [frame[t] EXCEPT !.primitives = generate_primitives(o)]
         IN  /\ IF NotList(f.primitives)
                THEN Return(t, f, NoPrimitivesMessage)
                ELSE Continue(t, f, "scaffold")
             /\ obs' = [obs EXCEPT ![t] = Seen(t, "generate_primitives", o)]
    /\ UNCHANGED <<future, committed, pending, nruns>>

\* lines 126-128
Scaffold(t) ==
    /\ pc[t] = "scaffold"
    /\ LET f == [frame[t] EXCEPT !.scaffold = construct_scaffold(frame[t].primitives)]
       IN  IF NotDict(f.scaffold)
           THEN Return(t, f, NoScaffoldMessage)
           ELSE Continue(t, f, "discover")
    /\ obs' = [obs EXCEPT ![t] = Seen(t, "construct_scaffold", Returns(0))]
    /\ UNCHANGED <<future, committed, pending, nruns>>

\* lines 130-132: discover_tools has returned found; the orchestrator warns
\* when it is empty and goes on either way
Discovered(t, found, o) ==
    LET seen == Seen(t, "discover_tools", o)
    IN  /\ Continue(t, [frame[t] EXCEPT !.tools = found], "synthesize")
        /\ obs' = [obs EXCEPT ![t] =
                     IF NotList(found)
                     THEN [seen EXCEPT !.calls = Append(@, "logger.warning")]
                     ELSE seen]

\* lines 82-83: the pool is created and find_tools is submitted to it; when
\* submit raises, the handler of lines 87-89 answers
Submit(t) ==
    /\ pc[t] = "discover"
    /\ \E o \in {Returns("future"), Raises(SubmitError)} :
         IF Raised(o)
         THEN /\ Discovered(t, discover_tools(o), o)
              /\ UNCHANGED future
         ELSE /\ Continue(t, frame[t], "await")
              /\ future' = [future EXCEPT ![t].state = "running"]
              /\ UNCHANGED obs
    /\ UNCHANGED <<committed, pending, nruns>>

\* lines 14-22 on the worker thread: the request is answered
Worker(t) ==
    /\ future[t].state = "running"
    /\ \E o \in SearchOutcomes :
         /\ future' = [future EXCEPT ![t] = [state |-> "finished", value |-> find_tools(o)]]
         /\ obs' = [obs EXCEPT
                      ![t].search = o,
                      ![t].raised = IF FindToolsFault(o) # ""
                                    THEN @ \cup {<<"find_tools", FindToolsFault(o)>>}
                                    ELSE @]
    /\ UNCHANGED <<pc, frame, committed, pending, nruns, returned>>

\* line 17 on the worker thread: requests.get is given no timeout and the
\* index never answers
WorkerBlocks(t) ==
    /\ future[t].state = "running"
    /\ future' = [future EXCEPT ![t].state = "blocked"]
    /\ UNCHANGED <<pc, frame, committed, pending, nruns, returned, obs>>

\* faulty variant of Await: the result is taken when the worker has one and
\* the empty list otherwise, and the worker is left running
AwaitNoJoin(t) ==
    /\ pc[t] = "await"
    /\ future[t].state \in {"running", "finished"}
    /\ Discovered(t, IF future[t].state = "finished" THEN future[t].value ELSE <<>>,
                  Returns(0))
    /\ future' = [future EXCEPT ![t].state =
                    IF @ = "finished" THEN "collected" ELSE @]
    /\ UNCHANGED <<committed, pending, nruns>>

\* lines 84-86: future.result() is given no timeout; it and the pool's
\* shutdown at the end of the with block wait for the worker
Await(t) ==
    /\ pc[t] = "await"
    /\ future[t].state = "finished"
    /\ Discovered(t, discover_tools(Returns(future[t].value)), Returns(0))
    /\ future' = [future EXCEPT ![t].state = "collected"]
    /\ UNCHANGED <<committed, pending, nruns>>

\* line 134
Synthesize(t) ==
    /\ pc[t] = "synthesize"
    /\ \E o \in SynthesisOutcomes :
         /\ Continue(t, [frame[t] EXCEPT !.meta_concept = synthesize_meta_concept(o)],
                     "generate")
         /\ obs' = [obs EXCEPT ![t] =
                      [Seen(t, "synthesize_meta_concept", o) EXCEPT
                         !.synth_args = <<frame[t].scaffold, frame[t].tools>>]]
    /\ UNCHANGED <<future, committed, pending, nruns>>

\* line 135
Generate(t) ==
    /\ pc[t] = "generate"
    /\ Continue(t, [frame[t] EXCEPT !.insight = generate_insight(frame[t].meta_concept)],
                "refine")
    /\ obs' = [obs EXCEPT ![t] = Seen(t, "generate_insight", Returns(0))]
    /\ UNCHANGED <<future, committed, pending, nruns>>

\* line 136
Refine(t) ==
    /\ pc[t] = "refine"
    /\ \E o \in RefineOutcomes :
         /\ Continue(t, [frame[t] EXCEPT
                           !.refined_insight = refine_insight(frame[t].insight, o)],
                     "store")
         /\ obs' = [obs EXCEPT ![t] = Seen(t, "refine_insight", o)]
    /\ UNCHANGED <<future, committed, pending, nruns>>

\* conn.execute("INSERT ...") on thread t: ProgrammingError off the
\* connection's thread, else the row joins the open transaction or the
\* statement fails
InsertOutcomes(t) ==
    IF t # ConnThread THEN {Raises(ThreadError)}
    ELSE {Returns("cursor"), Raises(BusyError)}

\* lines 138 and 33: store_success, the INSERT; an exception leaves
\* store_success and the body and reaches the handler of line 142
StoreInsert(t) ==
    /\ pc[t] = "store"
    /\ \E o \in InsertOutcomes(t) :
         /\ IF Raised(o)
            THEN Caught(t, frame[t], o.raise) /\ UNCHANGED pending
            ELSE Continue(t, frame[t], "commit") /\ pending' = Append(pending, Row(t))
         /\ obs' = [obs EXCEPT ![t] = Seen(t, "store_success", o)]
    /\ UNCHANGED <<future, committed, nruns>>

\* conn.commit(): the open transaction becomes durable; or it fails and
\* stays open (SQLITE_BUSY); or it fails and sqlite rolls it back (SQLITE_IOERR)
CommitOutcomes == {Returns("ok"), Raises(BusyError), Raises(DiskError)}

\* lines 34 and 139-140: the commit, then the insight is returned
StoreCommit(t) ==
    /\ pc[t] = "commit"
    /\ \E o \in CommitOutcomes :
         /\ IF Raised(o)
            THEN /\ Caught(t, frame[t], o.raise)
                 /\ pending' = IF o.raise = DiskError THEN <<>> ELSE pending
                 /\ UNCHANGED committed
            ELSE /\ Return(t, frame[t], frame[t].refined_insight)
                 /\ committed' = committed \o pending
                 /\ pending' = <<>>
         /\ obs' = [obs EXCEPT ![t].raised =
                      IF Raised(o) THEN @ \cup {<<"store_success", o.raise>>} ELSE @]
    /\ UNCHANGED <<future, nruns>>

\* lines 24-30 and 36 run again: the process is started anew while no call
\* is in progress. The old connection is gone, and with it the rows of a
\* transaction it left open; connect opens the same file and CREATE TABLE
\* IF NOT EXISTS finds the table in place
Reinitialize ==
    /\ \A t \in Threads : pc[t] \in {"idle", "done"}
    /\ pc' = [t \in Threads |-> "idle"]
    /\ frame' = [t \in Threads |-> NewFrame]
    /\ future' = [t \in Threads |-> NoFuture]
    /\ obs' = [t \in Threads |-> NewObs]
    /\ pending' = <<>>
    /\ UNCHANGED <<committed, nruns, returned>>

\* one step of the call running on thread t
Step(t) ==
    \/ Start(t)
    \/ Analyze(t)
    \/ Identify(t)
    \/ Primitives(t)
    \/ Scaffold(t)
    \/ Submit(t)
    \/ Await(t)
    \/ Synthesize(t)
    \/ Generate(t)
    \/ Refine(t)
    \/ StoreInsert(t)
    \/ StoreCommit(t)

Next ==
    \/ \E t \in Threads : Start(t)
    \/ \E t \in Threads : Analyze(t)
    \/ \E t \in Threads : Identify(t)
    \/ \E t \in Threads : Primitives(t)
    \/ \E t \in Threads : Scaffold(t)
    \/ \E t \in Threads : Submit(t)
    \/ \E t \in Threads : Worker(t)
    \/ \E t \in Threads : WorkerBlocks(t)
    \/ \E t \in Threads : Await(t)
    \/ \E t \in Threads : Synthesize(t)
    \/ \E t \in Threads : Generate(t)
    \/ \E t \in Threads : Refine(t)
    \/ \E t \in Threads : StoreInsert(t)
    \/ \E t \in Threads : StoreCommit(t)
    \/ Reinitialize

Spec == Init /\ [][Next]_vars

\* every thread that can run does run; whether the index answers is not
\* the program's to decide
FairSpec ==
    /\ Spec
    /\ \A t \in AllThreads : WF_vars(t \in Threads /\ Step(t))
    /\ \A t \in AllThreads : WF_vars(t \in Threads /\ (Worker(t) \/ WorkerBlocks(t)))

\* genesis_vector_algorithm called from two threads of one process
ThreadedSpec == InitFor(AllThreads) /\ [][Next]_vars

\* the primitives construct_scaffold is handed: with a key, and without one
PrimitiveChoices == {[key |-> "memory"], [key |-> "cache"], [name |-> "no key"]}
PrimitiveLists == UNION {[1..n -> PrimitiveChoices] : n \in 0..MaxPrims}

\* construct_scaffold (lines 73-78) and the gate on its result (lines
\* 126-128) applied to a primitive list handed in directly
BuilderInit ==
    /\ pc = [t \in {MainThread} |-> "scaffold"]
    /\ \E p \in PrimitiveLists, d \in Domains :
         frame = [t \in {MainThread} |->
                    [NewFrame EXCEPT !.domain_description = d, !.primitives = p]]
    /\ future = [t \in {MainThread} |-> NoFuture]
    /\ committed = <<>>
    /\ pending = <<>>
    /\ nruns = 1
    /\ returned = <<Running>>
    /\ obs = [t \in {MainThread} |-> [NewObs EXCEPT !.run = 1]]

BuilderNext == \E t \in Threads : Scaffold(t)

BuilderSpec == BuilderInit /\ [][BuilderNext]_vars

\* ================================================================ claims
Done(t) == pc[t] = "done"

\* s begins with prefix
StartsWith(s, prefix) ==
    Len(s) >= Len(prefix) /\ SubSeq(s, 1, Len(prefix)) = prefix

\* an "Error" or "Analysis Error" message
IsErrorResult(s) == StartsWith(s, "Error") \/ StartsWith(s, "Analysis Error")

\* the call of thread t came back through line 140
ReturnedInsight(t) ==
    Done(t) /\ Called(t, "store_success") /\ ~Failed(t, "store_success")

\* positions in the table, as the connection sees it, of the rows the call
\* of thread t wrote
RowsOf(t) == {i \in 1..Len(Rows) : Rows[i].run = obs[t].run}

\* C1: a call whose store_success raised, on the INSERT or on the commit,
\* after stages 1-7 produced a refined insight still returns exactly that
\* refined insight.
C1_StoreFailureKeepsInsight ==
    \A t \in Threads :
        (Done(t) /\ Failed(t, "store_success"))
            => frame[t].result = frame[t].refined_insight

\* C2: when analyze_domain yields an error marker with detail d (the
\* capability raised with message d, or returned a mapping with an error
\* field d), the call returns exactly "Analysis Error: " followed by d and
\* the store holds the records it held when the call started; the call
\* wrote no row.
C2_AnalysisErrorResult ==
    \A t \in Threads :
        /\ \A d \in Details :
             <<"analyze_domain", d>> \in obs[t].raised
                => Done(t) /\ frame[t].result = "Analysis Error: " \o d
        /\ (Called(t, "analyze_domain") /\ "error" \in DOMAIN frame[t].domain_data)
                => /\ Done(t)
                   /\ frame[t].result = "Analysis Error: " \o frame[t].domain_data.error
                   /\ committed = obs[t].before.committed
                   /\ pending = obs[t].before.pending
                   /\ RowsOf(t) = {}

\* C2 witness: with a row already stored, the capability raises "timeout"
\* and the call has returned "Analysis Error: timeout".
C2_Witness ==
    \E t \in Threads :
        /\ Done(t)
        /\ <<"analyze_domain", "timeout">> \in obs[t].raised
        /\ frame[t].result = "Analysis Error: timeout"
        /\ Len(committed) > 0

\* C3: a call that passed the gates of stages 1-4 and returned its refined
\* insight wrote exactly one row: the table holds the rows it held when the
\* call started followed by that one row, the row is committed, its insight
\* is the returned value and its domain is the call's input.
C3_OneRecordPerSuccess ==
    \A t \in Threads :
        ReturnedInsight(t) =>
            /\ frame[t].result = frame[t].refined_insight
            /\ Cardinality(RowsOf(t)) = 1
            /\ Len(Rows) = Len(obs[t].before.committed) + Len(obs[t].before.pending) + 1
            /\ SubSeq(Rows, 1, Len(Rows) - 1)
                 = obs[t].before.committed \o obs[t].before.pending
            /\ \A i \in RowsOf(t) :
                 /\ i = Len(Rows)
                 /\ i <= Len(committed)
                 /\ Rows[i].insight = frame[t].result
                 /\ Rows[i].domain = frame[t].domain_description

\* C3 witness: a second call has returned a refined insight and its row
\* follows the first call's row.
C3_Witness ==
    \E t \in Threads :
        /\ ReturnedInsight(t)
        /\ frame[t].result = "Refined insight"
        /\ Len(committed) = 2
        /\ committed[2].domain # committed[1].domain

\* C4: every persisted record belongs to a call that returned that record's
\* insight; no call that returned an "Error: ..." or "Analysis Error: ..."
\* string has a record, also after a store_success that failed between the
\* INSERT and the commit and a later call that commits on the same connection.
C4_RecordsOnlyOfSuccessfulRuns ==
    \A i \in 1..Len(committed) :
        /\ returned[committed[i].run] = committed[i].insight
        /\ ~IsErrorResult(returned[committed[i].run])

\* C5: discover_tools never blocks its caller for ever: whatever the search
\* index does, also when it never answers, a call that entered discover_tools
\* eventually leaves it.
C5_DiscoverToolsReturns ==
    \A t \in AllThreads :
        (t \in Threads /\ pc[t] \in {"discover", "await"})
            ~> (t \in Threads /\ pc[t] \notin {"discover", "await"})

\* C6: a call that passed stages 1-4 and whose discover_tools returned the
\* empty list does not abort: synthesize_meta_concept was invoked with the
\* scaffold and the empty tool list, a warning was logged, and the value the
\* call returns is not an "Error" or "Analysis Error" message.
C6_EmptyToolsNotFatal ==
    \A t \in Threads :
        (Done(t) /\ Called(t, "discover_tools") /\ frame[t].tools = <<>>)
            => /\ obs[t].synth_args = <<frame[t].scaffold, <<>>>>
               /\ Called(t, "logger.warning")
               /\ ~IsErrorResult(frame[t].result)

\* C7: calls running on the threads of one process against the shared store
\* are independent: every call that passed stages 1-7, and whose database
\* reported no fault of its own, returns its own refined insight and has
\* exactly one committed record, holding its own (domain, insight) pair.
C7_ConcurrentRunsIndependent ==
    \A t \in Threads :
        (/\ Done(t)
         /\ Called(t, "store_success")
         /\ frame[t].e \notin {BusyError, DiskError})
            => /\ frame[t].result = frame[t].refined_insight
               /\ \E i \in 1..Len(committed) :
                    /\ committed[i].run = obs[t].run
                    /\ committed[i].domain = frame[t].domain_description
                    /\ committed[i].insight = frame[t].refined_insight
               /\ Cardinality({i \in 1..Len(committed) : committed[i].run = obs[t].run}) = 1

\* C8: when analysis succeeded and identify_critical_elements yields the
\* empty list (the capability returned it or raised), the call has aborted
\* with exactly "Error: No critical elements identified".
C8_NoElementsAborts ==
    \A t \in Threads :
        /\ (Called(t, "identify_critical_elements") /\ frame[t].critical_elements = <<>>)
              => Done(t) /\ frame[t].result = "Error: No critical elements identified"
        /\ Failed(t, "identify_critical_elements")
              => Done(t) /\ frame[t].result = "Error: No critical elements identified"

\* C8 witness: prioritize_elements raised and the call has returned the message.
C8_Witness ==
    \E t \in Threads :
        /\ Done(t)
        /\ Failed(t, "identify_critical_elements")
        /\ "error" \notin DOMAIN frame[t].domain_data
        /\ frame[t].result = "Error: No critical elements identified"

\* C9: when stages 1-2 succeeded and generate_primitives yields the empty
\* list (the capability returned it or raised), the call returns exactly
\* "Error: Failed to generate primitives".
C9_NoPrimitivesAborts ==
    \A t \in Threads :
        /\ (Called(t, "generate_primitives") /\ frame[t].primitives = <<>>)
              => Done(t) /\ frame[t].result = "Error: Failed to generate primitives"
        /\ Failed(t, "generate_primitives")
              => Done(t) /\ frame[t].result = "Error: Failed to generate primitives"

\* C9 witness: generate_solution_primitives returned the empty list, after
\* two elements were identified, and the call has returned the message.
C9_Witness ==
    \E t \in Threads :
        /\ Done(t)
        /\ Called(t, "generate_primitives")
        /\ ~Failed(t, "generate_primitives")
        /\ Len(frame[t].critical_elements) = 2
        /\ frame[t].primitives = <<>>
        /\ frame[t].result = "Error: Failed to generate primitives"

\* C10: when the refinement call raised, refine_insight returned its input:
\* the refined insight is the draft of generate_insight, character for
\* character, and a call that returns an insight returns and records that draft.
C10_RefineFallbackIsDraft ==
    \A t \in Threads :
        Failed(t, "refine_insight") =>
            /\ frame[t].insight = "Insight from " \o frame[t].meta_concept
            /\ frame[t].refined_insight = frame[t].insight
            /\ ReturnedInsight(t) =>
                 /\ frame[t].result = frame[t].insight
                 /\ RowsOf(t) # {}
                 /\ \A i \in RowsOf(t) : Rows[i].insight = frame[t].insight

\* C10 witness: the refinement raised and the call has returned the draft.
C10_Witness ==
    \E t \in Threads :
        /\ ReturnedInsight(t)
        /\ Failed(t, "refine_insight")
        /\ frame[t].result = "Insight from adaptive context memory"

\* the stage functions of stages 6-8, in the order of lines 134-138
LaterStages ==
    <<"synthesize_meta_concept", "generate_insight", "refine_insight", "store_success">>

\* C11: when the search fails with a network, HTTP or parse fault, inside
\* find_tools or at the dispatch of the worker, discover_tools returns the
\* empty list without raising, and the call then completes normally through
\* stages 6-8: it returns its refined insight, recorded in the store.
C11_SearchFaultNotFatal ==
    \A t \in Threads :
        (Failed(t, "find_tools") \/ Failed(t, "discover_tools")) =>
            /\ Called(t, "discover_tools") => frame[t].tools = <<>>
            /\ Done(t) =>
                 /\ Called(t, "discover_tools")
                 /\ \A i \in 1..Len(LaterStages) : Called(t, LaterStages[i])
                 /\ frame[t].e = ""
                 /\ frame[t].result = frame[t].refined_insight
                 /\ \E i \in 1..Len(committed) :
                      /\ committed[i].run = obs[t].run
                      /\ committed[i].insight = frame[t].result

\* C12: no failure crosses a stage boundary unconverted: whatever each
\* collaborator does, every stage turns its collaborator's exception into
\* its own empty or error value, so no exception reaches the orchestrator
\* (its handler of line 142 never runs) and the call ends by returning one
\* string chosen by the gates or the refined insight.
C12_NoFaultCrossesStage ==
    \A t \in Threads :
        /\ frame[t].e = ""
        /\ Done(t) =>
             \/ frame[t].result = frame[t].refined_insight
             \/ frame[t].result \in
                  {NoElementsMessage, NoPrimitivesMessage, NoScaffoldMessage}
             \/ /\ "error" \in DOMAIN frame[t].domain_data
                /\ frame[t].result = AnalysisErrorMessage(frame[t].domain_data.error)

\* the stage functions in the order of lines 114-138
StageOrder ==
    <<"analyze_domain", "identify_critical_elements", "generate_primitives",
      "construct_scaffold", "discover_tools">> \o LaterStages

\* the stage functions the call of thread t has run, in order
StageCalls(t) == SelectSeq(obs[t].calls, LAMBDA c : c # "logger.warning")

\* the gate of a stage the call of thread t has run sent the call back
GateTripped(t) ==
    \/ "error" \in DOMAIN frame[t].domain_data
    \/ Called(t, "identify_critical_elements") /\ frame[t].critical_elements = <<>>
    \/ Called(t, "generate_primitives") /\ frame[t].primitives = <<>>
    \/ Called(t, "construct_scaffold") /\ DOMAIN frame[t].scaffold = {}

\* C13: the stages run strictly in the order of stages 1 to 8, each at most
\* once in a call; a call sent back by the gate of stage k (k in 1..4) has
\* run stages 1..k only: no later capability call, no search request and no
\* write to the store.
C13_StagesInOrder ==
    \A t \in Threads :
        /\ Len(StageCalls(t)) <= Len(StageOrder)
        /\ StageCalls(t) = SubSeq(StageOrder, 1, Len(StageCalls(t)))
        /\ future[t].state # "none" => Len(StageCalls(t)) >= 4
        /\ RowsOf(t) # {} => StageCalls(t) = StageOrder
        /\ GateTripped(t) =>
             /\ Done(t)
             /\ Len(StageCalls(t)) <= 4
             /\ IsErrorResult(frame[t].result)
             /\ future[t].state = "none"
             /\ RowsOf(t) = {}
             /\ committed = obs[t].before.committed
             /\ pending = obs[t].before.pending
        /\ (Done(t) /\ ~GateTripped(t)) => StageCalls(t) = StageOrder

\* C13 witness: a second call was sent back by the gate of stage 4 after
\* running stages 1-4, with the first call's record in the store.
C13_Witness ==
    \E t \in Threads :
        /\ Done(t)
        /\ frame[t].result = "Error: Scaffold construction failed"
        /\ Len(StageCalls(t)) = 4
        /\ Len(committed) = 1

\* C14: in one call no two stages run at the same time: the worker of
\* discover_tools exists only while the call waits in discover_tools, and it
\* has finished and been collected before synthesize_meta_concept or any
\* later stage starts and before the call returns.
C14_WorkerJoinedBeforeNextStage ==
    \A t \in Threads :
        /\ future[t].state \in {"running", "blocked", "finished"} => pc[t] = "await"
        /\ pc[t] \in {"synthesize", "generate", "refine", "store", "commit", "done"}
              => future[t].state \in {"none", "collected"}
        /\ Called(t, "synthesize_meta_concept")
              => Called(t, "discover_tools") /\ future[t].state \in {"none", "collected"}

\* C14 witness: the worker's result, three tools, has been collected and the
\* call stands before synthesize_meta_concept.
C14_Witness ==
    \E t \in Threads :
        /\ pc[t] = "synthesize"
        /\ future[t].state = "collected"
        /\ Len(frame[t].tools) = 3

\* every primitive of the list carries a key
AllKeyed(primitives) == \A i \in 1..Len(primitives) : "key" \in DOMAIN primitives[i]

C16_BuildKeepsOrder ==
    \A t \in Threads :
        (Called(t, "construct_scaffold") /\ AllKeyed(frame[t].primitives)) =>
            /\ DOMAIN frame[t].scaffold = {"keywords", "structure"}
            /\ Len(frame[t].scaffold.keywords) = Len(frame[t].primitives)
            /\ \A i \in 1..Len(frame[t].primitives) :
                 frame[t].scaffold.keywords[i] = frame[t].primitives[i].key
            /\ frame[t].scaffold.structure = "basic"
            /\ construct_scaffold(frame[t].primitives) = frame[t].scaffold

\* C16 witness: a scaffold built from a list that repeats a key out of
\* alphabetical order.
C16_Witness ==
    \E t \in Threads :
        /\ Called(t, "construct_scaffold")
        /\ frame[t].primitives = <<[key |-> "memory"], [key |-> "cache"], [key |-> "memory"]>>
        /\ frame[t].scaffold.keywords = <<"memory", "cache", "memory">>

\* the index answered the search request of thread t's call with candidates
Answered(t) ==
    /\ "ret" \in DOMAIN obs[t].search
    /\ "items" \in DOMAIN obs[t].search.ret

\* the smaller of a and b
Min(a, b) == IF a < b THEN a ELSE b

\* for a response with n candidates find_tools returned min(n, 3) tools, the
\* first candidates in the response's order, each with a name and the fields
\* named in fields
CappedWithFields(t, fields) ==
    Answered(t) =>
        LET items == obs[t].search.ret.items
            tools == future[t].value
        IN  /\ Len(tools) = Min(Len(items), 3)
            /\ \A i \in 1..Len(tools) :
                 /\ fields \subseteq DOMAIN tools[i]
                 /\ tools[i].name = items[i].name

IsPrefix(old, new) ==
    /\ Len(old) <= Len(new)
    /\ SubSeq(new, 1, Len(old)) = old

\* C18: the stored records are append-only over calls and initializations:
\* no step removes or changes a stored record, an initialization leaves the
\* stored records as they are, and a call adds at most one record to those
\* stored when it began.
C18_AppendOnly ==
    /\ [][IsPrefix(committed, committed')]_vars
    /\ [][Reinitialize => committed' = committed]_vars
    /\ [](\A t \in Threads :
            obs[t].run > 0 => Len(committed) <= Len(obs[t].before.committed) + 1)

====
